---- MODULE Spec2Model ----
(***************************************************************************)
(* Model of the Lisp tokenizer of include/reader.hpp (the last and most    *)
(* complete definition of lisp_reader::Tokenizer in that file, lines       *)
(* 339-484): a std::istream over a fixed text, the public operations       *)
(* canRead() and read(), and the private readers _readStr(), _readCmt()    *)
(* and _readSym(); of peek(), which the file declares and never defines;   *)
(* and of class Fraction (lines 236-277).                                  *)
(*                                                                         *)
(* A character is a one-character string, a text is a sequence of          *)
(* characters.  The stream is the record [pos, eof, fail, bad]: pos        *)
(* characters of the text have been consumed, and eof/fail/bad are the     *)
(* std::ios state bits.                                                    *)
(***************************************************************************)
EXTENDS Integers, Sequences, FiniteSets, TLC

VARIABLES
  input,        \* the text behind the std::istream (never changes)
  is,           \* Tokenizer::_is, the stream state
  last,         \* the operation that ran last
  start,        \* is.pos when the last operation began
  wasGood,      \* is.good() when the last operation began
  result,       \* what the last operation returned or threw
  tokens,       \* results of all read()/reader calls so far, in order
  canReadRes,   \* value returned by the last canRead()
  plain,        \* stream of a second tokenizer on the same text that gets
                \* the same read() calls and no canRead() call
  plainTokens,  \* results of the read() calls of that second tokenizer
  over,         \* number of reader calls begun with nothing left to read
  probed,       \* canRead() was called right before the last reader call
  cache,        \* the one-token lookahead of peek()
  peeked,       \* the latest run of peek() calls and what its first call returned
  frac,         \* a Fraction object and the call made on it last
  rhs           \* a second Fraction object, the one frac is compared with

vars == <<input, is, last, start, wasGood, result, tokens, canReadRes, plain, plainTokens, over, probed,
          cache, peeked, frac, rhs>>

-----------------------------------------------------------------------------
(* Bounds *)

MaxLen == 4        \* longest text for the public operations
MaxCmtLen == 6     \* longest text for the comment reader
MaxSymLen == 5     \* longest text for the symbol reader
MaxAnyLen == 3     \* longest text over the whole character set
MaxOver == 1       \* reader calls begun with nothing left to read
MaxPeekLen == 3    \* longest text for peek()
IntBits == 4       \* width of an int, in bits
MaxLitLen == 4     \* longest text of numeric literals
MaxNumLen == 4     \* longest text of literals with a point or an exponent

-----------------------------------------------------------------------------
(* Characters *)

DQ == "\""
BSL == "\\"
PIPE == "|"
DOT == "."
SP == " "
NL == "\n"
TAB == "\t"
SEMI == ";"
\* The backquote, which a TLA+ string cannot hold, is written by name.
BQ == "backquote"
\* namespace token_chars
token_chars_OPEN_PARENTHESIS == "("
token_chars_CLOSE_PARENTHESIS == ")"
token_chars_STRING == DQ
token_chars_COMMENT == SEMI

\* Texts given to read()/canRead(), to _readCmt() and to _readSym().
TokChars == {"(", ")", DQ, SP, "a"}
CmtChars == {SEMI, SP, NL, "a"}
SymChars == {"a", DOT, SP, BSL, PIPE, "("}
PeekChars == {"(", ")", DQ, "a"}
LitChars == {"0", "2", "4", "+", "-", "/"}
NumChars == {"2", DOT, "e", "d", "+", "-"}
\* Every character of the model.
Char == TokChars \cup CmtChars \cup SymChars \cup {"'", BQ, ",", ":", TAB}
\* The values tried for a char that is read while uninitialised: one for each
\* branch the readers can take on it (every other value behaves as "a").
UninitChar == {"(", ")", DQ, SEMI, "a"}

\* std::isspace in the "C" locale, over the characters a TLA+ string can hold.
IsSpace(c) == c \in {SP, TAB, NL, "\f", "\r"}

\* The array the symbol reader searches.
RESERVED_SYM_CHARS == {"(", ")", DQ, "'", BQ, ",", ":", SEMI, BSL, PIPE}

Texts(chars, n) == UNION {[1..k -> chars] : k \in 0..n}

-----------------------------------------------------------------------------
(* std::istream over the text input *)

NewStream == [pos |-> 0, eof |-> FALSE, fail |-> FALSE, bad |-> FALSE]

Good(s) == ~s.eof /\ ~s.fail /\ ~s.bad

\* _is >> c with noskipws: c keeps its old value when nothing is extracted.
\* A stream that is not good fails in the sentry; a good one at the end of
\* the text sets eofbit and failbit.
Get(s, c) ==
  IF ~Good(s) THEN [s |-> [s EXCEPT !.fail = TRUE], c |-> c]
  ELSE IF s.pos < Len(input)
       THEN [s |-> [s EXCEPT !.pos = @ + 1], c |-> input[s.pos + 1]]
       ELSE [s |-> [s EXCEPT !.eof = TRUE, !.fail = TRUE], c |-> c]

\* A canRead() that looks at the next character with get() instead of peek().
Peek_Consuming(s) == Get(s, "a").s

\* _is.peek(): consumes nothing; sets eofbit at the end of the text.
Peek(s) ==
  IF ~Good(s) THEN [s EXCEPT !.fail = TRUE]
  ELSE IF s.pos < Len(input) THEN s
       ELSE [s EXCEPT !.eof = TRUE]

\* _is.putback(c) on a read-only string buffer: clears eofbit first; backs up
\* one character when c is the character just read, else sets badbit.
Putback(s, c) ==
  LET t == [s EXCEPT !.eof = FALSE]
  IN IF ~Good(t) THEN [t EXCEPT !.fail = TRUE]
     ELSE IF t.pos > 0 /\ input[t.pos] = c THEN [t EXCEPT !.pos = @ - 1]
          ELSE [t EXCEPT !.bad = TRUE]

\* Index of the first character equal to c after position p, or 0.
FirstAfter(c, p) ==
  IF \E j \in (p + 1)..Len(input) : input[j] = c
  THEN CHOOSE j \in (p + 1)..Len(input) :
         input[j] = c /\ \A k \in (p + 1)..(j - 1) : input[k] # c
  ELSE 0

\* std::getline(_is, str): the line up to '\n' (extracted, not stored) or to
\* the end of the text (eofbit); failbit when nothing at all was extracted.
Getline(s) ==
  IF ~Good(s) THEN [s |-> [s EXCEPT !.fail = TRUE], str |-> <<>>]
  ELSE LET nl == FirstAfter(NL, s.pos)
       IN IF nl # 0
          THEN [s |-> [s EXCEPT !.pos = nl], str |-> SubSeq(input, s.pos + 1, nl - 1)]
          ELSE [s |-> [s EXCEPT !.pos = Len(input), !.eof = TRUE,
                                !.fail = (s.pos = Len(input))],
                str |-> SubSeq(input, s.pos + 1, Len(input))]

\* The values an uninitialised local char may show to a reader called on s.
\* When the stream delivers a character the local is overwritten before it
\* is read, and its old value does not matter.
Uninit(s) == IF Good(s) /\ s.pos < Len(input) THEN {"a"} ELSE UninitChar

-----------------------------------------------------------------------------
(* Results *)

NoError == "none"

\* A returned Token: its type, whether the optional payload is set, and the
\* text of the payload.
Tok(type, has, text) == [type |-> type, has |-> has, text |-> text, err |-> NoError]
\* A call that threw.
Thrown(err) == [type |-> "none", has |-> FALSE, text |-> <<>>, err |-> err]
\* A std::string returned by one of the private readers.
Str(text) == [type |-> "string", has |-> TRUE, text |-> text, err |-> NoError]

NoResult == [type |-> "none", has |-> FALSE, text |-> <<>>, err |-> NoError]

\* A call that never returns.
Hang == [type |-> "none", has |-> FALSE, text |-> <<>>, err |-> "never returns"]

\* The lookahead of peek() when it holds nothing.  A filled one holds the
\* result of the read that filled it and the values g1, g2 that read met in
\* its uninitialised locals.
NoCache == [full |-> FALSE, res |-> NoResult, g1 |-> "a", g2 |-> "a"]

\* No peek() call made yet.  n counts the calls of the run (up to 2), res is
\* what the first of them returned, closed tells that a read() has ended the
\* run.
NoPeek == [n |-> 0, res |-> NoResult, closed |-> FALSE]

\* No Fraction object constructed yet.
NoFraction ==
  [made |-> FALSE, num |-> 0, den |-> 0, crashed |-> FALSE, err |-> NoError,
   undef |-> FALSE, divByZero |-> FALSE, op |-> "none", arg1 |-> 0, arg2 |-> 0]

\* No second Fraction object constructed yet.  k is the factor its pair was
\* scaled by.
NoRhs ==
  [made |-> FALSE, num |-> 0, den |-> 0, crashed |-> FALSE, undef |-> FALSE, k |-> 0]

-----------------------------------------------------------------------------
(* Tokenizer::_readStr *)

\* A loop that also appends the closing delimiter it stops at.
RECURSIVE StrLoop_KeepsClosingQuote(_, _, _)
StrLoop_KeepsClosingQuote(s, c, ret) ==
  IF c # token_chars_STRING /\ ~s.eof
  THEN LET r == Get(s, c) IN StrLoop_KeepsClosingQuote(r.s, r.c, Append(ret, c))
  ELSE [s |-> s, c |-> c,
        ret |-> IF c = token_chars_STRING THEN Append(ret, c) ELSE ret]

RECURSIVE StrLoop(_, _, _)
\* while(c != '"' && !_is.eof()) { ret.push_back(c); _is >> c; }
StrLoop(s, c, ret) ==
  IF c # token_chars_STRING /\ ~s.eof
  THEN LET r == Get(s, c) IN StrLoop(r.s, r.c, Append(ret, c))
  ELSE [s |-> s, c |-> c, ret |-> ret]

\* A string reader that keeps the opening delimiter in the text.
ReadStr_KeepsQuote(s, g) ==
  LET r1 == Get(s, g)
  IN IF r1.c # token_chars_STRING
     THEN [s |-> r1.s, res |-> Thrown("MissingOpeningQuote")]
     ELSE LET r2 == Get(r1.s, r1.c)
              fin == StrLoop(r2.s, r2.c, <<r1.c>>)
          IN IF fin.c # token_chars_STRING
             THEN [s |-> fin.s, res |-> Thrown("MalformedString")]
             ELSE [s |-> fin.s, res |-> Str(fin.ret)]

\* g is the value the uninitialised local c holds.
ReadStr(s, g) ==
  LET r1 == Get(s, g)
  IN IF r1.c # token_chars_STRING
     THEN [s |-> r1.s, res |-> Thrown("MissingOpeningQuote")]
     ELSE LET r2 == Get(r1.s, r1.c)
              fin == StrLoop(r2.s, r2.c, <<>>)
          IN IF fin.c # token_chars_STRING
             THEN [s |-> fin.s, res |-> Thrown("MalformedString")]
             ELSE [s |-> fin.s, res |-> Str(fin.ret)]

-----------------------------------------------------------------------------
(* Tokenizer::canRead and Tokenizer::read *)

CanReadOp(s) == LET t == Peek(s) IN [s |-> t, ret |-> Good(t)]

\* A read() whose switch has lost the CLOSE_PARENTHESIS case.
ReadOp_NoCloseCase(s, g1, g2) ==
  LET r == Get(s, g1)
  IN CASE r.c = token_chars_STRING ->
            LET rs == ReadStr(Putback(r.s, token_chars_STRING), g2)
            IN [s |-> rs.s,
                res |-> IF rs.res.err = NoError
                        THEN Tok("STRING", TRUE, rs.res.text)
                        ELSE rs.res]
       [] OTHER ->
            [s |-> r.s, res |-> Tok("OPEN_PARENTHESIS", FALSE, <<>>)]

\* A read() that sets the type of a string token and forgets its payload.
ReadOp_StringWithoutPayload(s, g1, g2) ==
  LET r == Get(s, g1)
  IN CASE r.c = token_chars_OPEN_PARENTHESIS ->
            [s |-> r.s, res |-> Tok("OPEN_PARENTHESIS", FALSE, <<>>)]
       [] r.c = token_chars_CLOSE_PARENTHESIS ->
            [s |-> r.s, res |-> Tok("CLOSE_PARENTHESIS", FALSE, <<>>)]
       [] r.c = token_chars_STRING ->
            LET rs == ReadStr(Putback(r.s, token_chars_STRING), g2)
            IN [s |-> rs.s,
                res |-> IF rs.res.err = NoError
                        THEN Tok("STRING", FALSE, <<>>)
                        ELSE rs.res]
       [] OTHER ->
            [s |-> r.s, res |-> Tok("OPEN_PARENTHESIS", FALSE, <<>>)]

\* A read() that puts the double quote back and never calls _readStr().
ReadOp_OnlyPutsBack(s, g1, g2) ==
  LET r == Get(s, g1)
  IN CASE r.c = token_chars_OPEN_PARENTHESIS ->
            [s |-> r.s, res |-> Tok("OPEN_PARENTHESIS", FALSE, <<>>)]
       [] r.c = token_chars_CLOSE_PARENTHESIS ->
            [s |-> r.s, res |-> Tok("CLOSE_PARENTHESIS", FALSE, <<>>)]
       [] r.c = token_chars_STRING ->
            [s |-> Putback(r.s, token_chars_STRING), res |-> Tok("STRING", TRUE, <<>>)]
       [] OTHER ->
            [s |-> r.s, res |-> Tok("OPEN_PARENTHESIS", FALSE, <<>>)]

\* g1 and g2 are the values of the uninitialised locals of read() and of
\* _readStr().  Token ret; is value-initialised: type OPEN_PARENTHESIS
\* (enumerator 0) and no payload, which is what the switch leaves untouched
\* when no case matches.
ReadOp(s, g1, g2) ==
  LET r == Get(s, g1)
  IN CASE r.c = token_chars_OPEN_PARENTHESIS ->
            [s |-> r.s, res |-> Tok("OPEN_PARENTHESIS", FALSE, <<>>)]
       [] r.c = token_chars_CLOSE_PARENTHESIS ->
            [s |-> r.s, res |-> Tok("CLOSE_PARENTHESIS", FALSE, <<>>)]
       [] r.c = token_chars_STRING ->
            LET rs == ReadStr(Putback(r.s, token_chars_STRING), g2)
            IN [s |-> rs.s,
                res |-> IF rs.res.err = NoError
                        THEN Tok("STRING", TRUE, rs.res.text)
                        ELSE rs.res]
       [] OTHER ->
            [s |-> r.s, res |-> Tok("OPEN_PARENTHESIS", FALSE, <<>>)]

-----------------------------------------------------------------------------
(* State machine of the public operations *)

InitWith(chars, n) ==
  /\ input \in Texts(chars, n)
  /\ is = NewStream
  /\ last = "init"
  /\ start = 0
  /\ wasGood = TRUE
  /\ result = NoResult
  /\ tokens = <<>>
  /\ canReadRes = FALSE
  /\ plain = NewStream
  /\ plainTokens = <<>>
  /\ over = 0
  /\ probed = FALSE
  /\ cache = NoCache
  /\ peeked = NoPeek
  /\ frac = NoFraction
  /\ rhs = NoRhs

Init == InitWith(TokChars, MaxLen)

\* Nothing is left to read: no character, or a stream that is not good.
Exhausted(s) == ~(Good(s) /\ s.pos < Len(input))

\* Reader calls begun with nothing left to read are capped.
MayCall == result # Hang /\ (~Exhausted(is) \/ over < MaxOver)
Count ==
  /\ over' = IF Exhausted(is) THEN over + 1 ELSE over
  /\ probed' = (last = "canRead")

CanRead ==
  /\ result # Hang
  /\ LET r == CanReadOp(is)
     IN /\ is' = r.s
        /\ canReadRes' = r.ret
  /\ last' = "canRead"
  /\ start' = is.pos
  /\ wasGood' = Good(is)
  /\ UNCHANGED <<input, result, tokens, plain, plainTokens, over, probed, cache, peeked, frac, rhs>>

Read ==
  /\ MayCall
  /\ \E g1 \in Uninit(is) \cup Uninit(plain), g2 \in Uninit(is) \cup Uninit(plain) :
       LET r == ReadOp(is, g1, g2)
           p == ReadOp(plain, g1, g2)
       IN /\ is' = r.s
          /\ result' = r.res
          /\ tokens' = Append(tokens, r.res)
          /\ plain' = p.s
          /\ plainTokens' = Append(plainTokens, p.res)
  /\ last' = "read"
  /\ start' = is.pos
  /\ wasGood' = Good(is)
  /\ Count
  /\ UNCHANGED <<input, canReadRes, cache, peeked, frac, rhs>>

Next == CanRead \/ Read

Spec == Init /\ [][Next]_vars

\* The public operations on texts of digits, signs and '/'.
InitLit == InitWith(LitChars, MaxLitLen)

SpecLit == InitLit /\ [][Next]_vars

\* The public operations on texts of digits, signs, points and the markers
\* e and d.
InitNum == InitWith(NumChars, MaxNumLen)

SpecNum == InitNum /\ [][Next]_vars

-----------------------------------------------------------------------------
(* Tokenizer::peek, declared at reader.hpp:384 and defined nowhere: the      *)
(* one-token lookahead of section 4.1 and 9 of the specification.  peek()    *)
(* fills an empty lookahead by running read() once and keeps the result, a   *)
(* thrown error included; read() hands out a filled lookahead and empties    *)
(* it, and runs as in the source when the lookahead is empty.                *)

\* A peek() that reads again although the lookahead is filled.
PeekOp_Rereads(s, ch, g1, g2) ==
  LET r == ReadOp(s, g1, g2)
  IN [s |-> r.s, res |-> r.res,
      cache |-> [full |-> TRUE, res |-> r.res, g1 |-> g1, g2 |-> g2]]

PeekOp(s, ch, g1, g2) ==
  IF ch.full
  THEN [s |-> s, res |-> ch.res, cache |-> ch]
  ELSE LET r == ReadOp(s, g1, g2)
       IN [s |-> r.s, res |-> r.res,
           cache |-> [full |-> TRUE, res |-> r.res, g1 |-> g1, g2 |-> g2]]

\* read() of a tokenizer that has peek().
ReadCachedOp(s, ch, g1, g2) ==
  IF ch.full
  THEN [s |-> s, res |-> ch.res, cache |-> NoCache]
  ELSE LET r == ReadOp(s, g1, g2)
       IN [s |-> r.s, res |-> r.res, cache |-> NoCache]

\* Calls that run the source's read() with nothing left to read are capped.
MayRun == cache.full \/ MayCall
CountRun ==
  /\ over' = IF ~cache.full /\ Exhausted(is) THEN over + 1 ELSE over
  /\ probed' = (last = "canRead")

\* The values the uninitialised locals of a read() may show; a filled
\* lookahead means that no read() runs and nothing is chosen.
Locals == IF cache.full THEN {"a"} ELSE Uninit(is) \cup Uninit(plain)

PeekTok ==
  /\ MayRun
  /\ \E g1 \in Locals, g2 \in Locals :
       LET r == PeekOp(is, cache, g1, g2)
       IN /\ is' = r.s
          /\ cache' = r.cache
          /\ result' = r.res
          /\ peeked' = IF peeked.n = 0 \/ peeked.closed
                       THEN [n |-> 1, res |-> r.res, closed |-> FALSE]
                       ELSE [peeked EXCEPT !.n = 2]
  /\ last' = "peek"
  /\ start' = is.pos
  /\ wasGood' = Good(is)
  /\ CountRun
  /\ UNCHANGED <<input, tokens, canReadRes, plain, plainTokens, frac, rhs>>

\* read(); the second tokenizer, which gets the read() calls alone, meets in
\* its uninitialised locals what the read that filled the lookahead met.
ReadTok ==
  /\ MayRun
  /\ \E g1 \in Locals, g2 \in Locals :
       LET r == ReadCachedOp(is, cache, g1, g2)
           p == IF cache.full THEN ReadOp(plain, cache.g1, cache.g2)
                              ELSE ReadOp(plain, g1, g2)
       IN /\ is' = r.s
          /\ cache' = r.cache
          /\ result' = r.res
          /\ tokens' = Append(tokens, r.res)
          /\ plain' = p.s
          /\ plainTokens' = Append(plainTokens, p.res)
  /\ peeked' = IF peeked.n > 0 /\ ~peeked.closed
               THEN [peeked EXCEPT !.closed = TRUE] ELSE NoPeek
  /\ last' = "read"
  /\ start' = is.pos
  /\ wasGood' = Good(is)
  /\ CountRun
  /\ UNCHANGED <<input, canReadRes, frac, rhs>>

NextPeek == CanRead \/ PeekTok \/ ReadTok

InitPeek == InitWith(PeekChars, MaxPeekLen)

SpecPeek == InitPeek /\ [][NextPeek]_vars

-----------------------------------------------------------------------------
(* Tokenizer::_readCmt *)

RECURSIVE CmtLoop(_, _)
\* while(c == ';' & !_is.eof()) _is >> c;
\* On a stream with failbit set and eofbit clear the extraction changes
\* nothing and the loop never ends.
CmtLoop(s, c) ==
  IF c = token_chars_COMMENT /\ ~s.eof
  THEN IF ~Good(s)
       THEN [s |-> s, c |-> c, hang |-> TRUE]
       ELSE LET r == Get(s, c) IN CmtLoop(r.s, r.c)
  ELSE [s |-> s, c |-> c, hang |-> FALSE]

RECURSIVE LTrim(_)
\* ret.erase(ret.begin(), find_if_not(ret.begin(), ret.end(), isspace))
LTrim(str) ==
  IF str # <<>> /\ IsSpace(Head(str)) THEN LTrim(Tail(str)) ELSE str

\* A comment reader that trims both ends of the line.
ReadCmt_TrimsBothEnds(s, g) ==
  LET RECURSIVE RTrim(_)
      RTrim(str) ==
        IF str # <<>> /\ IsSpace(str[Len(str)])
        THEN RTrim(SubSeq(str, 1, Len(str) - 1)) ELSE str
      r1 == Get(s, g)
  IN IF r1.c # token_chars_COMMENT
     THEN [s |-> r1.s, res |-> Thrown("MissingSemicolon")]
     ELSE LET fin == CmtLoop(r1.s, r1.c)
              gl == Getline(Putback(fin.s, fin.c))
          IN IF fin.hang THEN [s |-> fin.s, res |-> Hang]
             ELSE [s |-> gl.s, res |-> Str(RTrim(LTrim(gl.str)))]

\* g is the value the uninitialised local c holds.
ReadCmt(s, g) ==
  LET r1 == Get(s, g)
  IN IF r1.c # token_chars_COMMENT
     THEN [s |-> r1.s, res |-> Thrown("MissingSemicolon")]
     ELSE LET fin == CmtLoop(r1.s, r1.c)
              gl == Getline(Putback(fin.s, fin.c))
          IN IF fin.hang THEN [s |-> fin.s, res |-> Hang]
             ELSE [s |-> gl.s, res |-> Str(LTrim(gl.str))]

-----------------------------------------------------------------------------
(* The comment reader applied, call after call, to a text *)

InitCmt == InitWith(CmtChars, MaxCmtLen)

\* One call of a private reader: f is the reader, name its label.
Call(name, r) ==
  /\ MayCall
  /\ is' = r.s
  /\ result' = r.res
  /\ tokens' = Append(tokens, r.res)
  /\ plain' = r.s
  /\ plainTokens' = Append(plainTokens, r.res)
  /\ last' = name
  /\ start' = is.pos
  /\ wasGood' = Good(is)
  /\ Count
  /\ UNCHANGED <<input, canReadRes, cache, peeked, frac, rhs>>

CallReadCmt == \E g \in Uninit(is) : Call("readCmt", ReadCmt(is, g))

NextCmt == CanRead \/ CallReadCmt

SpecCmt == InitCmt /\ [][NextCmt]_vars

-----------------------------------------------------------------------------
(* Tokenizer::_readSym *)

\* A literal run that a space ends as it ends a symbol.
RECURSIVE PipeLoop_StopsAtSpace(_, _, _)
PipeLoop_StopsAtSpace(s, c, ret) ==
  IF c # PIPE /\ c # SP
  THEN IF ~Good(s)
       THEN [s |-> s, c |-> c, ret |-> ret, err |-> "UnmatchedPipe"]
       ELSE LET r == Get(s, c) IN PipeLoop_StopsAtSpace(r.s, r.c, Append(ret, c))
  ELSE [s |-> s, c |-> c, ret |-> ret, err |-> NoError]

RECURSIVE PipeLoop(_, _, _)
\* while(c != '|') { if(!_is.good()) throw ...; ret.push_back(c); _is >> c; }
PipeLoop(s, c, ret) ==
  IF c # PIPE
  THEN IF ~Good(s)
       THEN [s |-> s, c |-> c, ret |-> ret, err |-> "UnmatchedPipe"]
       ELSE LET r == Get(s, c) IN PipeLoop(r.s, r.c, Append(ret, c))
  ELSE [s |-> s, c |-> c, ret |-> ret, err |-> NoError]

\* An escape that forgets to extract the character after the backslash.
EscapeCase_NoExtract(s, c) == [s |-> s, c |-> c, err |-> NoError]

\* An escape that never checks whether a character followed the backslash.
EscapeCase_NoThrow(s, c) ==
  LET r == Get(s, c) IN [s |-> r.s, c |-> r.c, err |-> NoError]

\* case '\\': _is >> c; if(!_is.good()) throw ...;  (the caller pushes c)
EscapeCase(s, c) ==
  LET r == Get(s, c)
  IN [s |-> r.s, c |-> r.c,
      err |-> IF ~Good(r.s) THEN "DanglingEscape" ELSE NoError]

\* A reserved-character test with the comparison inverted.
IsReserved_Inverted(c) == c \notin RESERVED_SYM_CHARS

\* std::find(RESERVED_SYM_CHARS.begin(), RESERVED_SYM_CHARS.end(), c) != end
IsReserved(c) == c \in RESERVED_SYM_CHARS

RECURSIVE SymLoop(_, _, _, _)
\* while(_is.good() && c != ' ') { switch(c) {...} _is >> c; }
SymLoop(s, c, ret, dotCnt) ==
  IF Good(s) /\ c # SP
  THEN CASE c = DOT ->
              LET n == Get(s, c) IN SymLoop(n.s, n.c, Append(ret, c), dotCnt + 1)
         [] c = BSL ->
              LET e == EscapeCase(s, c)
              IN IF e.err # NoError
                 THEN [s |-> e.s, ret |-> ret, dotCnt |-> dotCnt, err |-> e.err]
                 ELSE LET n == Get(e.s, e.c)
                      IN SymLoop(n.s, n.c, Append(ret, e.c), dotCnt)
         [] c = PIPE ->
              LET r == Get(s, c)
                  pl == PipeLoop(r.s, r.c, ret)
              IN IF pl.err # NoError
                 THEN [s |-> pl.s, ret |-> pl.ret, dotCnt |-> dotCnt, err |-> pl.err]
                 ELSE LET n == Get(pl.s, pl.c)
                      IN SymLoop(n.s, n.c, pl.ret, dotCnt)
         [] OTHER ->
              IF IsReserved(c)
              THEN [s |-> s, ret |-> ret, dotCnt |-> dotCnt, err |-> "IllegalSymbolChar"]
              ELSE LET n == Get(s, c) IN SymLoop(n.s, n.c, Append(ret, c), dotCnt)
  ELSE [s |-> s, ret |-> ret, dotCnt |-> dotCnt, err |-> NoError]

\* A dot test that forgets to ask for at least one dot.
TooManyDots_NoneNeeded(dotCnt, ret) == dotCnt = Len(ret)

\* if(dotCnt > 0 && dotCnt == ret.size())
TooManyDots(dotCnt, ret) == dotCnt > 0 /\ dotCnt = Len(ret)

\* The local c is uninitialised when the first extraction fails, and is then
\* never read: the loop condition tests _is.good() first.  The error thrown
\* for a text of dots is recorded with that text.
ReadSym(s) ==
  LET r == Get(s, SP)
      fin == SymLoop(r.s, r.c, <<>>, 0)
  IN IF fin.err # NoError
     THEN [s |-> fin.s, res |-> Thrown(fin.err)]
     ELSE IF TooManyDots(fin.dotCnt, fin.ret)
          THEN [s |-> fin.s, res |-> [Thrown("AllDotsSymbol") EXCEPT !.text = fin.ret]]
          ELSE [s |-> fin.s, res |-> Str(fin.ret)]

-----------------------------------------------------------------------------
(* The symbol reader applied, call after call, to a text *)

InitSym == InitWith(SymChars, MaxSymLen)

CallReadSym == Call("readSym", ReadSym(is))

NextSym == CanRead \/ CallReadSym

SpecSym == InitSym /\ [][NextSym]_vars

\* The same over short texts of all characters.
InitAny == InitWith(Char, MaxAnyLen)

SpecSymAny == InitAny /\ [][NextSym]_vars

-----------------------------------------------------------------------------
(* class Fraction *)

\* The values of an int.
MinInt == -(2 ^ (IntBits - 1))
MaxInt == 2 ^ (IntBits - 1) - 1
Ints == MinInt..MaxInt

Abs(x) == IF x < 0 THEN -x ELSE x

\* The quotient and remainder of the built-in / and %, for b # 0 and a
\* quotient that fits: the quotient is truncated toward zero and the
\* remainder has the sign of a.
Quot(a, b) ==
  IF (a < 0) = (b < 0) THEN Abs(a) \div Abs(b) ELSE -(Abs(a) \div Abs(b))
Rem(a, b) == a - b * Quot(a, b)

\* What an evaluation of a / b or a % b comes to: a value, or the end of the
\* process; undef tells that the evaluation was undefined, byZero that the
\* divisor was 0.
Val(v) == [trap |-> FALSE, val |-> v, undef |-> FALSE, byZero |-> FALSE]
Undefined(v, z) == {[trap |-> TRUE, val |-> 0, undef |-> TRUE, byZero |-> z],
                    [trap |-> FALSE, val |-> v, undef |-> TRUE, byZero |-> z]}

\* a / b.  Division by 0 and MinInt / -1 are undefined: the divide
\* instruction either traps or delivers 0, respectively MinInt.
DivOutcomes(a, b) ==
  IF b = 0 THEN Undefined(0, TRUE)
  ELSE IF a = MinInt /\ b = -1 THEN Undefined(MinInt, FALSE)
  ELSE {Val(Quot(a, b))}

\* a % b, undefined in the same cases: a trap, or a - (a / b) * b.
RemOutcomes(a, b) ==
  IF b = 0 THEN Undefined(a, TRUE)
  ELSE IF a = MinInt /\ b = -1 THEN Undefined(0, FALSE)
  ELSE {Val(Rem(a, b))}

RECURSIVE Fraction_gcd(_, _)
\* while(b != 0) { int t = b; b = a % b; a = t; } return a;
Fraction_gcd(a, b) ==
  IF b = 0 THEN {Val(a)}
  ELSE UNION {IF r.trap THEN {r}
              ELSE {[g EXCEPT !.undef = @ \/ r.undef] : g \in Fraction_gcd(b, r.val)}
              : r \in RemOutcomes(a, b)}

\* The members _num and _den after a call, whether the process was stopped
\* in it, whether an evaluation in it was undefined, and whether it divided
\* by 0.
Members(num, den, crashed, undef, byZero) ==
  [num |-> num, den |-> den, crashed |-> crashed, undef |-> undef, divByZero |-> byZero]

\* int gcd = _gcd(_num, _den); _num /= gcd; _den /= gcd;
Fraction_simplify(num, den) ==
  UNION {
    IF g.trap THEN {Members(num, den, TRUE, TRUE, FALSE)}
    ELSE UNION {
      IF qn.trap THEN {Members(num, den, TRUE, TRUE, qn.byZero)}
      ELSE {IF qd.trap
            THEN Members(qn.val, den, TRUE, TRUE, qd.byZero)
            ELSE Members(qn.val, qd.val, FALSE,
                         g.undef \/ qn.undef \/ qd.undef, qn.byZero \/ qd.byZero)
            : qd \in DivOutcomes(den, g.val)}
      : qn \in DivOutcomes(num, g.val)}
    : g \in Fraction_gcd(num, den)}

\* bool isInt() const {return _den == 1;}
Fraction_isInt(f) == f.den = 1

\* The object after the call op has simplified the pair (a, b); no call of
\* the class throws.
Simplified(op, a, b) ==
  {[made |-> TRUE, num |-> m.num, den |-> m.den, crashed |-> m.crashed,
    err |-> NoError, undef |-> m.undef, divByZero |-> m.divByZero, op |-> op, arg1 |-> a, arg2 |-> b]
   : m \in Fraction_simplify(a, b)}

\* Fraction(int num, int den) : _num(num), _den(den) { _simplify(); }
Construct ==
  /\ ~frac.made
  /\ \E num \in Ints, den \in Ints : frac' \in Simplified("Fraction", num, den)
  /\ UNCHANGED <<input, is, last, start, wasGood, result, tokens, canReadRes, plain,
                 plainTokens, over, probed, cache, peeked, rhs>>

\* void setNum(int num) {_num = num; _simplify();}
SetNum ==
  /\ frac.made /\ ~frac.crashed /\ ~rhs.made
  /\ \E num \in Ints : frac' \in Simplified("setNum", num, frac.den)
  /\ UNCHANGED <<input, is, last, start, wasGood, result, tokens, canReadRes, plain,
                 plainTokens, over, probed, cache, peeked, rhs>>

\* void setDen(int den) {_den = den; _simplify();}
SetDen ==
  /\ frac.made /\ ~frac.crashed /\ ~rhs.made
  /\ \E den \in Ints : frac' \in Simplified("setDen", frac.num, den)
  /\ UNCHANGED <<input, is, last, start, wasGood, result, tokens, canReadRes, plain,
                 plainTokens, over, probed, cache, peeked, rhs>>

\* bool operator==(const Fraction &rhs) const
\*   {return _num == rhs._num && _den == rhs._den;}
Fraction_eq(f, g) == f.num = g.num /\ f.den = g.den

\* A second object, Fraction(k * a, k * b) for the pair (a, b) that frac was
\* last simplified from and a factor k other than 0 whose products are ints.
\* It is the last call of a run: frac is compared with it as it stands.
ConstructScaled ==
  /\ frac.made /\ ~frac.crashed /\ ~rhs.made
  /\ \E k \in Ints \ {0} :
       /\ k * frac.arg1 \in Ints
       /\ k * frac.arg2 \in Ints
       /\ \E m \in Fraction_simplify(k * frac.arg1, k * frac.arg2) :
            rhs' = [made |-> TRUE, num |-> m.num, den |-> m.den,
                    crashed |-> m.crashed, undef |-> m.undef, k |-> k]
  /\ UNCHANGED <<input, is, last, start, wasGood, result, tokens, canReadRes, plain,
                 plainTokens, over, probed, cache, peeked, frac>>

InitFrac == InitWith({}, 0)

NextFrac == Construct \/ SetNum \/ SetDen \/ ConstructScaled

SpecFrac == InitFrac /\ [][NextFrac]_vars

-----------------------------------------------------------------------------
(* Claims about canRead(), read() and the string reader, under Spec *)

\* C1: canRead() returns true exactly when an unconsumed character remains,
\* and it consumes nothing: the tokenizer that is also asked canRead() stands
\* at the same character and has returned the same results as the tokenizer
\* that got the read() calls alone.
C1_CanReadConsumesNothing ==
  /\ (last = "canRead" => canReadRes = (is.pos < Len(input)))
  /\ is.pos = plain.pos
  /\ tokens = plainTokens

\* canRead() said yes between two reads, and the read after it returned a
\* string.
C1_Witness ==
  /\ last = "read" /\ probed /\ canReadRes
  /\ Len(tokens) >= 2 /\ over = 0
  /\ result.type = "STRING"

ParensOnly ==
  \A i \in 1..Len(input) :
    input[i] \in {token_chars_OPEN_PARENTHESIS, token_chars_CLOSE_PARENTHESIS}

ParenToken(c) ==
  IF c = token_chars_OPEN_PARENTHESIS
  THEN Tok("OPEN_PARENTHESIS", FALSE, <<>>)
  ELSE Tok("CLOSE_PARENTHESIS", FALSE, <<>>)

\* C2: on a text of parentheses alone the k-th read() returns the token of
\* the k-th character, without payload, having consumed k characters, and
\* canRead() is false exactly when as many tokens were read as the text has
\* characters.
C2_OneTokenPerParenthesis ==
  ParensOnly =>
    /\ \A i \in 1..Len(tokens) :
         i <= Len(input) => tokens[i] = ParenToken(input[i])
    /\ (over = 0 => is.pos = Len(tokens))
    /\ (over = 0 /\ last = "canRead" =>
          canReadRes = (Len(tokens) < Len(input)))

C2_Witness ==
  /\ ParensOnly /\ Len(input) >= 3
  /\ \E i, j \in 1..Len(input) : input[i] # input[j]
  /\ Len(tokens) = Len(input) /\ over = 0
  /\ last = "canRead" /\ ~canReadRes

\* The last read() began at an opening double quote.
ReadAtQuote ==
  /\ last = "read"
  /\ start < Len(input)
  /\ input[start + 1] = DQ

C4_UnterminatedStringThrows ==
  (ReadAtQuote /\ FirstAfter(DQ, start + 1) = 0) =>
    result.err = "MalformedString"

\* The part of C4 the code does satisfy: the error is thrown when at least
\* one character follows the opening quote.
C4_ThrowsWhenTextFollows ==
  (ReadAtQuote /\ FirstAfter(DQ, start + 1) = 0 /\ start + 1 < Len(input)) =>
    result.err = "MalformedString"

-----------------------------------------------------------------------------
(* Claim about the comment reader, under SpecCmt *)

\* Index of the last character of the run of ';' that begins at p + 1.
SemiRunEnd(p) ==
  CHOOSE k \in p..Len(input) :
    /\ \A i \in (p + 1)..k : input[i] = SEMI
    /\ (k < Len(input) => input[k + 1] # SEMI)

\* Number of whitespace characters a text begins with.
LeadingSpaces(str) ==
  CHOOSE w \in 0..Len(str) :
    /\ \A i \in 1..w : IsSpace(str[i])
    /\ (w < Len(str) => ~IsSpace(str[w + 1]))

\* The last call was the comment reader, begun at a character of the text.
CmtCalled == last = "readCmt" /\ start < Len(input)

\* C5: the comment reader begun at a ';' returns the rest of the line after
\* the whole run of ';', less its leading whitespace and nothing else, and
\* stops right after the line terminator (at the end of the text when the
\* line has none); begun at another character it throws.
C5_CommentIsLeftTrimmedLine ==
  CmtCalled =>
    IF input[start + 1] # SEMI
    THEN result.err = "MissingSemicolon"
    ELSE LET k == SemiRunEnd(start)
             nl == FirstAfter(NL, k)
             e == IF nl # 0 THEN nl - 1 ELSE Len(input)
             line == SubSeq(input, k + 1, e)
         IN /\ result = Str(SubSeq(line, LeadingSpaces(line) + 1, Len(line)))
            /\ is.pos = (IF nl # 0 THEN nl ELSE Len(input))

\* A comment with a run of two ';', leading whitespace, a text, a line
\* terminator and a following line that is left unread.
C5_Witness ==
  /\ CmtCalled /\ input[start + 1] = SEMI
  /\ SemiRunEnd(start) >= start + 2
  /\ SemiRunEnd(start) < Len(input)
  /\ IsSpace(input[SemiRunEnd(start) + 1])
  /\ result.err = NoError /\ Len(result.text) >= 1
  /\ is.pos > 0 /\ is.pos < Len(input) /\ input[is.pos] = NL

-----------------------------------------------------------------------------
(* Claims about the symbol reader, under SpecSym and SpecSymAny *)

\* The last call was the symbol reader.
SymCalled == last = "readSym"

\* A character that is neither the delimiting space nor reserved.
Plain(c) == c # SP /\ c \notin RESERVED_SYM_CHARS

\* Every character of the last call before index q is plain, so that the
\* reader meets the character at q outside any escape or literal run.
PlainBefore(q) == \A i \in (start + 1)..(q - 1) : Plain(input[i])

IsPrefix(pre, str) == Len(pre) <= Len(str) /\ SubSeq(str, 1, Len(pre)) = pre

\* The symbol ends right after index j: at the end of the text or at a space.
EndsAfter(j) == j = Len(input) \/ input[j + 1] = SP

\* Number of backslashes that stand in a row right before index j, after q.
RECURSIVE BackslashesBefore(_, _)
BackslashesBefore(j, q) ==
  IF j - 1 > q /\ input[j - 1] = BSL THEN 1 + BackslashesBefore(j - 1, q) ELSE 0

\* Index of the first '|' after q that no backslash escapes, or 0.
NextUnescapedPipe(q) ==
  LET Closing(j) == input[j] = PIPE /\ BackslashesBefore(j, q) % 2 = 0
  IN IF \E j \in (q + 1)..Len(input) : Closing(j)
     THEN CHOOSE j \in (q + 1)..Len(input) :
            Closing(j) /\ \A k \in (q + 1)..(j - 1) : ~Closing(k)
     ELSE 0

\* A literal run opened at q and closed at j: the reader goes on to j at
\* least, the text begins with the plain characters before q followed by the
\* characters between q and j, and is exactly that when the symbol ends at j.
LiteralRun(q, j) ==
  LET pre == SubSeq(input, start + 1, q - 1) \o SubSeq(input, q + 1, j - 1)
  IN /\ is.pos >= j
     /\ (result.err = NoError => IsPrefix(pre, result.text))
     /\ (EndsAfter(j) =>
           /\ result.err \in {NoError, "AllDotsSymbol"}
           /\ result.text = pre)

\* C6 as stated: the literal run opened by a '|' ends at the next '|' that is
\* not escaped by a backslash.
C6_RunEndsAtUnescapedPipe ==
  SymCalled =>
    \A q \in (start + 1)..Len(input) :
      (PlainBefore(q) /\ input[q] = PIPE /\ NextUnescapedPipe(q) # 0) =>
        LiteralRun(q, NextUnescapedPipe(q))

\* C6 as amended: the literal run opened by a '|' ends at the next '|',
\* whether or not a backslash stands before it; all characters between the
\* two, spaces, reserved characters and backslashes included, are appended
\* as they are, and neither '|' is.
C6_RunEndsAtNextPipe ==
  SymCalled =>
    \A q \in (start + 1)..Len(input) :
      (PlainBefore(q) /\ input[q] = PIPE /\ FirstAfter(PIPE, q) # 0) =>
        LiteralRun(q, FirstAfter(PIPE, q))

\* A symbol was returned whose literal run holds a space and a reserved
\* character.
C6_Witness ==
  /\ SymCalled /\ result.err = NoError
  /\ \E q \in (start + 1)..Len(input) :
       /\ PlainBefore(q) /\ input[q] = PIPE /\ FirstAfter(PIPE, q) # 0
       /\ \E i, k \in (q + 1)..(FirstAfter(PIPE, q) - 1) :
            input[i] = SP /\ input[k] \in RESERVED_SYM_CHARS

\* C7: a backslash met outside a literal run makes the reader append the one
\* character after it, whatever it is, and go on: the backslash is not in
\* the text, the escaped character neither ends the symbol nor raises an
\* error (an error, if any, comes from a later character).
C7_EscapeAppendsNextCharacter ==
  SymCalled =>
    \A q \in (start + 1)..(Len(input) - 1) :
      (PlainBefore(q) /\ input[q] = BSL) =>
        LET pre == Append(SubSeq(input, start + 1, q - 1), input[q + 1])
        IN /\ is.pos >= q + 1
           /\ (result.err = NoError => IsPrefix(pre, result.text))
           /\ (result.err # NoError => is.pos > q + 1)
           /\ (EndsAfter(q + 1) => result = Str(pre))

\* An escaped space or reserved character was appended and the symbol went on
\* after it.
C7_Witness ==
  /\ SymCalled /\ result.err = NoError
  /\ \E q \in (start + 1)..(Len(input) - 1) :
       /\ PlainBefore(q) /\ input[q] = BSL
       /\ input[q + 1] \in {SP} \cup RESERVED_SYM_CHARS
       /\ q > start + 1
       /\ Len(result.text) > q - start

\* The text of a symbol that is written with plain characters only.
PlainWord(q) == SubSeq(input, start + 1, q - 1)

AllDotsText(str) == str # <<>> /\ \A i \in 1..Len(str) : str[i] = DOT

\* The second sentence of C9: the plain characters the reader meets are
\* appended as they are.
PlainAppended ==
  /\ \A q \in (start + 1)..(Len(input) + 1) :
       (PlainBefore(q) /\ result.err = NoError) =>
          IsPrefix(PlainWord(q), result.text)
  /\ \A q \in (start + 1)..(Len(input) + 1) :
       (PlainBefore(q) /\ (q = Len(input) + 1 \/ input[q] = SP)) =>
          /\ result.text = PlainWord(q)
          /\ result.err = (IF AllDotsText(PlainWord(q)) THEN "AllDotsSymbol" ELSE NoError)

\* A reserved character of the set chars, met outside escape and literal run,
\* makes the call throw the illegal-character error at that character.
ReservedThrows(chars) ==
  \A q \in (start + 1)..Len(input) :
    (PlainBefore(q) /\ input[q] \in chars) =>
       /\ result.err = "IllegalSymbolChar"
       /\ result.has = FALSE
       /\ is.pos = q

\* C9 as stated: each of the ten reserved characters, backslash and '|'
\* included, throws when met unescaped outside a literal run.
C9_EveryReservedThrows ==
  SymCalled => (ReservedThrows(RESERVED_SYM_CHARS) /\ PlainAppended)

\* C9 as amended: the reserved characters other than backslash and '|' throw
\* when met unescaped outside a literal run (an unescaped backslash or '|'
\* met there starts an escape or a literal run instead), and plain
\* characters are appended as they are.
C9_ReservedButEscapeAndPipeThrow ==
  SymCalled => (ReservedThrows(RESERVED_SYM_CHARS \ {BSL, PIPE}) /\ PlainAppended)

\* The reader threw at a reserved character that came after a plain one.
C9_Witness ==
  /\ SymCalled /\ result.err = "IllegalSymbolChar"
  /\ start + 2 <= Len(input)
  /\ Plain(input[start + 1])
  /\ input[start + 2] \in RESERVED_SYM_CHARS \ {BSL, PIPE}
  /\ is.pos = start + 2

SymbolEnd ==
  IF is.pos > start /\ input[is.pos] = SP /\ (is.pos = start + 1 \/ input[is.pos - 1] # BSL)
  THEN is.pos - 1 ELSE is.pos

\* The characters i..e of the text are written as plain dots and nothing
\* that adds to the text: dots outside escape and literal run, and literal
\* runs that are empty (a '|' that is the last character of the text reads as
\* an empty run).
RECURSIVE PlainDotsOnly(_, _)
PlainDotsOnly(i, e) ==
  IF i > e THEN TRUE
  ELSE IF input[i] = DOT THEN PlainDotsOnly(i + 1, e)
  ELSE IF input[i] = PIPE /\ i + 1 <= e /\ input[i + 1] = PIPE
       THEN PlainDotsOnly(i + 2, e)
  ELSE input[i] = PIPE /\ i = e /\ e = Len(input)

-----------------------------------------------------------------------------
(* Claim about successive symbols, under Spec (and SpecSym) *)

\* The text is one or more words of plain characters, with one space between
\* two words and none at either end.
IsSymbolList ==
  /\ input # <<>>
  /\ \A i \in 1..Len(input) : Plain(input[i]) \/ input[i] = SP
  /\ input[1] # SP /\ input[Len(input)] # SP
  /\ \A i \in 1..(Len(input) - 1) : ~(input[i] = SP /\ input[i + 1] = SP)

\* The words of the text from index p on.
RECURSIVE Words(_)
Words(p) ==
  IF p > Len(input) THEN <<>>
  ELSE LET sp == FirstAfter(SP, p - 1)
           e == IF sp # 0 THEN sp - 1 ELSE Len(input)
       IN <<SubSeq(input, p, e)>> \o Words(e + 2)

\* C8: on a list of n symbols the k-th read() returns SYMBOL with the text of
\* the k-th word, and canRead() is false after the n-th read.
C8_ReadReturnsTheSymbols ==
  (IsSymbolList /\ over = 0) =>
    /\ \A i \in 1..Len(tokens) :
         i <= Len(Words(1)) => tokens[i] = Tok("SYMBOL", TRUE, Words(1)[i])
    /\ (last = "canRead" /\ Len(tokens) = Len(Words(1)) => ~canReadRes)

\* What holds of the symbol reader itself (under SpecSym): called n times on
\* a list of n symbols, none made of dots alone, it returns the n words and
\* leaves nothing to read.
SymbolReaderReturnsTheWords ==
  (IsSymbolList /\ over = 0 /\ \A i \in 1..Len(Words(1)) : ~AllDotsText(Words(1)[i])) =>
    /\ \A i \in 1..Len(tokens) : tokens[i] = Str(Words(1)[i])
    /\ (last = "canRead" /\ Len(tokens) = Len(Words(1)) => ~canReadRes)

-----------------------------------------------------------------------------
(* Claims about the errors of the symbol reader, under SpecSym *)

\* The reader, standing at index i outside escape and literal run, comes to
\* stand at index q in the same way: it steps over a plain character, over a
\* backslash and the character after it, and over a closed literal run.
RECURSIVE MetOutside(_, _)
MetOutside(i, q) ==
  IF i = q THEN TRUE
  ELSE IF i > q \/ i > Len(input) THEN FALSE
  ELSE IF input[i] = BSL THEN MetOutside(i + 2, q)
  ELSE IF input[i] = PIPE
       THEN FirstAfter(PIPE, i) # 0 /\ MetOutside(FirstAfter(PIPE, i) + 1, q)
  ELSE Plain(input[i]) /\ MetOutside(i + 1, q)

\* The last call was the symbol reader, begun on a good stream at a character.
SymCalledAtChar == SymCalled /\ wasGood /\ start < Len(input)

\* The '|' at index q opens a literal run that the text never closes.
OpensUnclosedRun(q) ==
  /\ MetOutside(start + 1, q)
  /\ input[q] = PIPE
  /\ FirstAfter(PIPE, q) = 0

\* C11: when a '|' opens a literal run and the text ends before a closing
\* '|', also when the opening '|' is the last character of the text, the call
\* throws UnmatchedPipe and returns no symbol.
C11_UnclosedRunThrows ==
  SymCalledAtChar =>
    \A q \in (start + 1)..Len(input) :
      OpensUnclosedRun(q) => (result.err = "UnmatchedPipe" /\ ~result.has)

\* The part of C11 the code does satisfy: the error is thrown when at least
\* one character follows the opening '|'.
C11_ThrowsWhenTextFollows ==
  SymCalledAtChar =>
    \A q \in (start + 1)..(Len(input) - 1) :
      OpensUnclosedRun(q) =>
        (result.err = "UnmatchedPipe" /\ ~result.has /\ is.pos = Len(input))

\* C12: when a backslash met outside a literal run and not itself escaped is
\* the last character of the text, the call throws DanglingEscape and returns
\* no symbol.
C12_TrailingBackslashThrows ==
  (SymCalledAtChar /\ MetOutside(start + 1, Len(input)) /\ input[Len(input)] = BSL) =>
    (result.err = "DanglingEscape" /\ ~result.has /\ is.pos = Len(input))

\* The error was thrown for a backslash that ends a text in which an escaped
\* backslash or a closed literal run comes before it.
C12_Witness ==
  /\ SymCalledAtChar /\ result.err = "DanglingEscape"
  /\ input[Len(input)] = BSL /\ Len(input) >= start + 3
  /\ \E i \in (start + 1)..(Len(input) - 1) : input[i] \in {BSL, PIPE}

-----------------------------------------------------------------------------
(* Claims about the dispatch of read(), under Spec *)

\* The last call was read(), begun with nothing left to read: canRead() would
\* have returned false.
ReadWithNothingLeft == last = "read" /\ ~(wasGood /\ start < Len(input))

\* The last call was read(), begun on a good stream at a character.
ReadAtChar == last = "read" /\ wasGood /\ start < Len(input)

\* C13: a read() begun when canRead() is false throws EndOfInput: it returns
\* no token, consumes nothing and acts on no unread or stale character.
C13_ReadWithNothingLeftThrows ==
  ReadWithNothingLeft =>
    /\ result.err = "EndOfInput"
    /\ ~result.has
    /\ is.pos = start

Digits == {"0", "1", "2", "3", "4", "5", "6", "7", "8", "9"}

NumericTypes == {"INT", "FLOAT", "DOUBLE", "FRACTION"}

\* C15: read() selects the kind of the token from the first unconsumed
\* character, whatever it is: '(' gives OPEN_PARENTHESIS, ')' gives
\* CLOSE_PARENTHESIS, a double quote the string reader, ';' the comment reader
\* and COMMENT, a digit or sign the numeric reader (a number, or a symbol on
\* fallback), every other character the symbol reader and SYMBOL; so
\* OPEN_PARENTHESIS is returned only for '('.
C15_KindFollowsFirstCharacter ==
  ReadAtChar =>
    LET c == input[start + 1]
        Returned(types) == result.err = NoError => result.type \in types
    IN /\ (result.type = "OPEN_PARENTHESIS" => c = token_chars_OPEN_PARENTHESIS)
       /\ CASE c = token_chars_OPEN_PARENTHESIS -> result = Tok("OPEN_PARENTHESIS", FALSE, <<>>)
            [] c = token_chars_CLOSE_PARENTHESIS -> result = Tok("CLOSE_PARENTHESIS", FALSE, <<>>)
            [] c = token_chars_STRING -> Returned({"STRING"})
            [] c = token_chars_COMMENT -> Returned({"COMMENT"})
            [] c \in Digits \cup {"+", "-"} -> Returned(NumericTypes \cup {"SYMBOL"})
            [] OTHER -> Returned({"SYMBOL"})

\* The part of C15 the code does satisfy: the three characters that have a
\* case in the switch of read().
C15_ThreeCasesDispatch ==
  ReadAtChar =>
    LET c == input[start + 1]
    IN /\ (c = token_chars_OPEN_PARENTHESIS => result = Tok("OPEN_PARENTHESIS", FALSE, <<>>))
       /\ (c = token_chars_CLOSE_PARENTHESIS => result = Tok("CLOSE_PARENTHESIS", FALSE, <<>>))
       /\ (c = token_chars_STRING => (result.err = NoError => result.type = "STRING"))

TokenTypes ==
  {"OPEN_PARENTHESIS", "CLOSE_PARENTHESIS", "SYMBOL", "COMMENT"} \cup NumericTypes \cup {"STRING"}

\* C16: every token read() has returned has a type of the enumeration and
\* carries no payload exactly when that type is OPEN_PARENTHESIS or
\* CLOSE_PARENTHESIS.
C16_PayloadFollowsType ==
  \A i \in 1..Len(tokens) :
    tokens[i].err = NoError =>
      /\ tokens[i].type \in TokenTypes
      /\ (~tokens[i].has <=> tokens[i].type \in {"OPEN_PARENTHESIS", "CLOSE_PARENTHESIS"})

\* A parenthesis without payload and a string with one were both returned.
C16_Witness ==
  /\ last = "read" /\ over = 0
  /\ \E i, j \in 1..Len(tokens) :
       /\ tokens[i] = Tok("CLOSE_PARENTHESIS", FALSE, <<>>)
       /\ tokens[j].type = "STRING" /\ tokens[j].has /\ Len(tokens[j].text) >= 1

-----------------------------------------------------------------------------
(* Claim about peek(), under SpecPeek *)

-----------------------------------------------------------------------------
(* Claims about class Fraction, under SpecFrac *)

\* The greatest common divisor of two naturals that are not both 0.
MathGcd(a, b) ==
  LET Common(d) == a % d = 0 /\ b % d = 0
      top == IF a > b THEN a ELSE b
  IN CHOOSE d \in 1..top : Common(d) /\ \A e \in (d + 1)..top : ~Common(e)

\* A pair in lowest terms with a positive denominator.
InLowestTerms(num, den) == den > 0 /\ MathGcd(Abs(num), den) = 1

\* C17: the Fraction built from a pair of ints with a denominator other than
\* 0, of either sign, and the Fraction left by a setNum or setDen that
\* simplifies a pair with a denominator other than 0, is in lowest terms with
\* a positive denominator.
C17_FractionInLowestTerms ==
  (frac.made /\ frac.arg2 # 0) =>
    (~frac.crashed /\ InLowestTerms(frac.num, frac.den))

\* The part of C17 the code does satisfy: a pair of a non-negative numerator
\* and a positive denominator is brought to lowest terms, with a positive
\* denominator and the same value.
FractionReducesPositivePairs ==
  (frac.made /\ frac.arg1 >= 0 /\ frac.arg2 > 0) =>
    /\ ~frac.crashed
    /\ InLowestTerms(frac.num, frac.den)
    /\ frac.num * frac.arg2 = frac.den * frac.arg1

\* What the code does for the other signs, as long as no evaluation is
\* undefined (MinInt / -1, MinInt % -1): numerator and denominator have no
\* common divisor and the value is kept, and the denominator may be negative.
FractionReducesUpToSign ==
  (frac.made /\ frac.arg2 # 0 /\ ~frac.undef) =>
    /\ frac.den # 0
    /\ MathGcd(Abs(frac.num), Abs(frac.den)) = 1
    /\ frac.num * frac.arg2 = frac.den * frac.arg1

\* C18: constructing a Fraction with denominator 0, or setting its
\* denominator to 0, is reported as an error: no division by zero is
\* performed, the numerator is not reduced against the 0, and no Fraction
\* with denominator 0 ever exists.
C18_ZeroDenominatorIsAnError ==
  /\ (frac.made /\ frac.op \in {"Fraction", "setDen"} /\ frac.arg2 = 0) =>
       /\ frac.err # NoError
       /\ ~frac.divByZero
       /\ ~frac.crashed
  /\ (frac.made /\ frac.err = NoError) => frac.den # 0

-----------------------------------------------------------------------------
(* Claims about numeric literals, under SpecLit (and SpecFrac) *)

DigitValue(c) ==
  CASE c = "0" -> 0 [] c = "1" -> 1 [] c = "2" -> 2 [] c = "3" -> 3 [] c = "4" -> 4
    [] c = "5" -> 5 [] c = "6" -> 6 [] c = "7" -> 7 [] c = "8" -> 8 [] c = "9" -> 9

IsDigits(str) == str # <<>> /\ \A i \in 1..Len(str) : str[i] \in Digits

\* The value of a text of decimal digits; leading zeros add nothing.
RECURSIVE DecimalValue(_)
DecimalValue(str) ==
  IF str = <<>> THEN 0
  ELSE 10 * DecimalValue(SubSeq(str, 1, Len(str) - 1)) + DigitValue(str[Len(str)])

\* An optional single sign followed by one or more digits.
IsSignedDigits(str) ==
  /\ str # <<>>
  /\ IsDigits(IF str[1] \in {"+", "-"} THEN Tail(str) ELSE str)

SignedValue(str) ==
  IF str[1] = "-" THEN -DecimalValue(Tail(str))
  ELSE IF str[1] = "+" THEN DecimalValue(Tail(str))
  ELSE DecimalValue(str)

\* The payload of an INT token and of a FRACTION token.
IntPayload(v) == <<v>>
FractionPayload(num, den) == <<num, den>>

\* The text is <int>/<digits>, with a denominator other than 0.
IsFractionLiteral ==
  LET sl == FirstAfter("/", 0)
  IN /\ sl # 0
     /\ IsSignedDigits(SubSeq(input, 1, sl - 1))
     /\ IsDigits(SubSeq(input, sl + 1, Len(input)))
     /\ DecimalValue(SubSeq(input, sl + 1, Len(input))) # 0

\* The token of the fraction num/den, den > 0, brought to lowest terms: INT
\* when the reduced denominator is 1, FRACTION otherwise.
ReducedToken(num, den) ==
  LET g == MathGcd(Abs(num), den)
      n == IF num < 0 THEN -(Abs(num) \div g) ELSE num \div g
  IN IF den \div g = 1
     THEN Tok("INT", TRUE, IntPayload(n))
     ELSE Tok("FRACTION", TRUE, FractionPayload(n, den \div g))

\* C19: a text <int>/<digits> is read as one token, INT with the reduced
\* numerator when the reduced denominator is 1 and FRACTION with the reduced
\* pair otherwise, and no FRACTION token with denominator 1 is returned.
C19_FractionLiteralCollapses ==
  /\ (IsFractionLiteral /\ Len(tokens) >= 1) =>
       LET sl == FirstAfter("/", 0)
           want == ReducedToken(SignedValue(SubSeq(input, 1, sl - 1)),
                                DecimalValue(SubSeq(input, sl + 1, Len(input))))
       IN /\ tokens[1].type = want.type
          /\ tokens[1].has
          /\ tokens[1].text = want.text
  /\ \A i \in 1..Len(tokens) :
       tokens[i].type = "FRACTION" => tokens[i].text[2] # 1

\* What class Fraction adds to C19 (under SpecFrac): for a denominator above
\* 0, isInt() is true exactly when the denominator divides the numerator, and
\* the numerator is then the quotient.
FractionCollapsesExactly ==
  (frac.made /\ frac.op = "Fraction" /\ frac.arg2 > 0 /\ ~frac.undef) =>
    /\ Fraction_isInt(frac) <=> (Abs(frac.arg1) % frac.arg2 = 0)
    /\ Fraction_isInt(frac) => frac.num * frac.arg2 = frac.arg1

\* C20: a text that is an optional single sign followed by digits is read as
\* one INT token with its signed decimal value, the '+' dropped and leading
\* zeros ignored, and is consumed whole: canRead() is false afterwards.
C20_SignedDigitsReadAsInt ==
  (IsSignedDigits(input) /\ Len(tokens) >= 1) =>
    /\ tokens[1].type = "INT"
    /\ tokens[1].has
    /\ tokens[1].text = IntPayload(SignedValue(input))
    /\ (Len(tokens) = 1 =>
          /\ is.pos = Len(input)
          /\ (last = "canRead" => ~canReadRes))

-----------------------------------------------------------------------------
(* Claims about the classification of numeric-looking texts, under SpecLit  *)
(* and SpecNum                                                              *)

Signs == {"+", "-"}
Markers == {"+", "-", "e", "d"}

\* The text begins as a number does.
StartsNumeric(str) == str # <<>> /\ str[1] \in Digits \cup Signs

\* The text is one token for the symbol reader: no space, no reserved
\* character, no escape and no literal run.
IsOneToken(str) ==
  /\ str # <<>>
  /\ \A i \in 1..Len(str) :
       /\ ~IsSpace(str[i])
       /\ str[i] \notin RESERVED_SYM_CHARS \cup {BSL, PIPE}

\* The positions of the character c in the text.
Places(c, str) == {i \in 1..Len(str) : str[i] = c}

\* <int>/<digits>.
IsFractionText(str) ==
  \E sl \in Places("/", str) :
    /\ IsSignedDigits(SubSeq(str, 1, sl - 1))
    /\ IsDigits(SubSeq(str, sl + 1, Len(str)))

\* <int>.<digits>.
IsPointText(str) ==
  \E pt \in Places(DOT, str) :
    /\ IsSignedDigits(SubSeq(str, 1, pt - 1))
    /\ IsDigits(SubSeq(str, pt + 1, Len(str)))

\* A mantissa, the marker m, and an exponent of an optional sign and digits.
IsExponentText(str, m) ==
  \E at \in Places(m, str) :
    /\ \/ IsSignedDigits(SubSeq(str, 1, at - 1))
       \/ IsPointText(SubSeq(str, 1, at - 1))
    /\ IsSignedDigits(SubSeq(str, at + 1, Len(str)))

IsFloatText(str) == IsPointText(str) \/ IsExponentText(str, "e")
IsDoubleText(str) == IsExponentText(str, "d")

\* The text is classified as a number by the rules of the four kinds.
IsNumberText(str) ==
  IsSignedDigits(str) \/ IsFractionText(str) \/ IsFloatText(str) \/ IsDoubleText(str)

\* The first read() returned the whole text as one SYMBOL.
FirstIsSymbolOfWholeText ==
  /\ tokens[1].type = "SYMBOL"
  /\ tokens[1].has
  /\ tokens[1].text = input
  /\ tokens[1].err = NoError

\* C21: a text that begins with a digit or a sign and is not a number of any
\* of the four kinds is read as one SYMBOL whose text is the whole text,
\* every character once and in order, and the text is consumed whole:
\* canRead() is false afterwards.
C21_FailedNumberReadAsSymbol ==
  (StartsNumeric(input) /\ IsOneToken(input) /\ ~IsNumberText(input)
     /\ Len(tokens) >= 1) =>
    /\ FirstIsSymbolOfWholeText
    /\ (Len(tokens) = 1 =>
          /\ is.pos = Len(input)
          /\ (last = "canRead" => ~canReadRes))

\* C22: a text that begins with a digit or a sign and ends with one of the
\* markers + - e d is read as a SYMBOL with the whole text, never as INT,
\* FLOAT or DOUBLE.
C22_NoNumberEndsOnMarker ==
  (StartsNumeric(input) /\ IsOneToken(input) /\ input[Len(input)] \in Markers
     /\ Len(tokens) >= 1) =>
    /\ tokens[1].type \notin NumericTypes
    /\ FirstIsSymbolOfWholeText

\* The text is an <int>, a '/', and then either nothing or a character that
\* is not a digit.
SlashWithoutDigit ==
  LET sl == FirstAfter("/", 0)
  IN /\ sl # 0
     /\ IsSignedDigits(SubSeq(input, 1, sl - 1))
     /\ (sl = Len(input) \/ input[sl + 1] \notin Digits)

\* C23: after an <int>, a '/' that is followed by the end of the text, a
\* sign or any other character that is not a digit makes the whole text a
\* SYMBOL: no FRACTION is returned and no error is thrown.
C23_SlashNeedsDigit ==
  (SlashWithoutDigit /\ IsOneToken(input) /\ Len(tokens) >= 1) =>
    /\ tokens[1].type # "FRACTION"
    /\ tokens[1].err = NoError
    /\ FirstIsSymbolOfWholeText

\* An <int>, the marker e or d, and then neither a sign nor a digit.
MarkerWithoutExponent ==
  \E at \in Places("e", input) \cup Places("d", input) :
    /\ IsSignedDigits(SubSeq(input, 1, at - 1))
    /\ (at = Len(input) \/ input[at + 1] \notin Digits \cup Signs)

\* C24: a text with a point followed by digits, or with an e followed by an
\* exponent, and no d, is read as FLOAT; a text with a single d followed by
\* an exponent is read as DOUBLE; a text whose e or d is followed by neither
\* a sign nor a digit is read as SYMBOL.
C24_MarkersClassifyNumbers ==
  (IsOneToken(input) /\ Len(tokens) >= 1) =>
    /\ IsFloatText(input) => (tokens[1].type = "FLOAT" /\ tokens[1].has)
    /\ IsDoubleText(input) => (tokens[1].type = "DOUBLE" /\ tokens[1].has)
    /\ MarkerWithoutExponent => FirstIsSymbolOfWholeText

-----------------------------------------------------------------------------
(* Claims about the empty string literal and about progress, under Spec *)

EmptyLiteral == <<DQ, DQ>>

\* The text is the empty string literal and read() has been called on it.
EmptyLiteralFirstRead ==
  /\ input = EmptyLiteral
  /\ Len(tokens) >= 1

ReadsAtChar == Len(tokens) - over

\* C26: a read() begun while canRead() is true, that is with a good stream
\* and a character left, ends with at least one character more consumed,
\* whether it returns a token or throws; so the calls made while canRead() is
\* true are never more than the characters of the text.
C26_ReadConsumesACharacter ==
  /\ ReadAtChar => is.pos > start
  /\ ReadsAtChar <= is.pos
  /\ is.pos <= Len(input)

\* A text of the greatest length was read to its end one character at a
\* time, and a read() of an unterminated string threw after consuming.
C26_Witness ==
  /\ ReadAtChar
  /\ Len(input) = MaxLen
  /\ ReadsAtChar >= MaxLen - 1
  /\ result.err # NoError
  /\ is.pos > start

-----------------------------------------------------------------------------
(* Claim about the comparison of Fraction objects, under SpecFrac *)

\* C27: for a pair (a, b) with b other than 0 and a factor k other than 0,
\* Fraction(a, b) and Fraction(k * a, k * b) are both constructed and compare
\* equal under operator==: the same stored numerator and the same stored
\* denominator.
C27_ScaledFractionsCompareEqual ==
  (rhs.made /\ frac.arg2 # 0) =>
    /\ ~rhs.crashed
    /\ Fraction_eq(frac, rhs)

\* The part of C27 the code does satisfy: when no evaluation is undefined
\* (no MinInt / -1 and no MinInt % -1) in either constructor, the two objects
\* hold the same numerator and the same denominator, for a factor of either
\* sign.
ScaledFractionsEqualWhenDefined ==
  (rhs.made /\ frac.arg2 # 0 /\ ~frac.undef /\ ~rhs.undef) =>
    /\ ~rhs.crashed
    /\ Fraction_eq(frac, rhs)

====
